---- MODULE Spec2Model ----
(***************************************************************************)
(* Player_European_Stats.py: the cached query layer over the table         *)
(* streamlit.Fbref_Appearances, the filter chain of create_streamlit_app   *)
(* and the aggregation it runs over the filtered rows.                     *)
(*                                                                         *)
(* Representation.  A season name "YYYY/YYYY" is the pair of its two year  *)
(* fields <<YYYY, YYYY>>; string order on season names is the              *)
(* lexicographic order of the pair.  A nullable cell of a dataframe is a   *)
(* sequence: NA is <<>>, the value v is <<v>>.  A dataframe is the         *)
(* sequence of its rows.  Python's order on strings is given by StrOrder.  *)
(* The separator of the team list is written " - ".                        *)
(*                                                                         *)
(* Three specifications share the definitions.  Spec is one run of the     *)
(* page from process start (an empty cache) against a table that may       *)
(* change between any two steps, so that each query can see a different    *)
(* table, as it would when an earlier run had left a stale entry.          *)
(* SpecQuery is the cached query layer under a caller that repeats one     *)
(* call while time passes and the table changes.  SpecAgg is the season    *)
(* filter and the aggregation over bounded frames.                         *)
(*                                                                         *)
(* Exceptions end a run in "raised": strftime on a NULL date, a            *)
(* multiselect default that is no option, int() of a NULL maximum, a       *)
(* slider default above max_value.                                         *)
(***************************************************************************)
EXTENDS Integers, Sequences, FiniteSets, TLC

VARIABLES
    db,               \* the rows of streamlit.Fbref_Appearances
    now,              \* the clock the cache reads
    cache,            \* st.cache_data: per function, its live entries
    last,             \* the latest call of a query function and what it did
    probe,            \* the function and arguments a direct caller uses
    pc,               \* position of create_streamlit_app
    calls,            \* query functions called by the current run, in order
    competitions,     \* Step 1 selection
    max_seasons,      \* result of load_number_of_seasons
    minimum_seasons,  \* Step 2 selection
    players,          \* result of load_players
    player,           \* Step 3 selection
    player_df,        \* result of load_player_data
    final_df,         \* rows after the season filter (and after replace)
    report,           \* what the run showed when it stopped early
    stats             \* the aggregated output of the run

vars == <<db, now, cache, last, probe, pc, calls, competitions,
          max_seasons, minimum_seasons, players, player, player_df,
          final_df, report, stats>>

---------------------------------------------------------------------------
(* Bounds of the model. *)
MaxTicks == 2
MaxRows == 3

(* Constants of the program. *)
TTL == 600
SliderMin == 1
SliderDefault == 3
Sentinel == -1

NA == <<>>
NoPlayer == ""

---------------------------------------------------------------------------
(* Python's order on the strings the model uses (code point order). *)
StrOrder ==
    <<"", "Ann", "Bob", "Brazil", "Champions League", "DF", "Europa League",
      "FW", "N/A", "Reds", "Spain", "Whites">>

Rank(s) == CHOOSE i \in 1..Len(StrOrder) : StrOrder[i] = s

StrLess(a, b) == Rank(a) < Rank(b)

(* "2015/2016" < "2017/2018": lexicographic on the two year fields. *)
SeasonLess(a, b) == a[1] < b[1] \/ (a[1] = b[1] /\ a[2] < b[2])

Range(s) == {s[i] : i \in 1..Len(s)}

RECURSIVE SelectSeq2(_, _)
(* The subsequence of s of the elements in the set keep. *)
SelectSeq2(s, keep) ==
    IF s = <<>> THEN <<>>
    ELSE IF Head(s) \in keep THEN <<Head(s)>> \o SelectSeq2(Tail(s), keep)
         ELSE SelectSeq2(Tail(s), keep)

RECURSIVE SortedStrings(_)
(* sorted(list of distinct strings) *)
SortedStrings(S) ==
    IF S = {} THEN <<>>
    ELSE LET m == CHOOSE x \in S : \A y \in S : ~StrLess(y, x)
         IN <<m>> \o SortedStrings(S \ {m})

RECURSIVE SortedSeasons(_)
SortedSeasons(S) ==
    IF S = {} THEN <<>>
    ELSE LET m == CHOOSE x \in S : \A y \in S : ~SeasonLess(y, x)
         IN <<m>> \o SortedSeasons(S \ {m})

RECURSIVE SortedInts(_)
SortedInts(S) ==
    IF S = {} THEN <<>>
    ELSE LET m == CHOOSE x \in S : \A y \in S : x <= y
         IN <<m>> \o SortedInts(S \ {m})

---------------------------------------------------------------------------
(* Aggregation stage of create_streamlit_app. *)

(* A replace that leaves the sentinel in place. *)
ReplaceCellKeep(v) == <<v>>

(* DataFrame.replace(-1, pd.NA) on one numeric cell. *)
ReplaceCell(v) == IF v = Sentinel THEN NA ELSE <<v>>

(* final_df.replace(-1, pd.NA): every numeric column of every row. *)
ReplaceSentinel(df) ==
    [i \in 1..Len(df) |->
        [df[i] EXCEPT !.goals = ReplaceCell(@),
                      !.number_of_seasons = ReplaceCell(@)]]

RECURSIVE SumSkipNA(_)
(* Series.sum(skipna=True) over a sequence of nullable cells. *)
SumSkipNA(cells) ==
    IF cells = <<>> THEN 0
    ELSE (IF Head(cells) = NA THEN 0 ELSE Head(cells)[1]) + SumSkipNA(Tail(cells))

GoalCells(df) == [i \in 1..Len(df) |-> df[i].goals]

RECURSIVE FirstSeen(_)
(* The distinct non-null values of a column in order of first occurrence. *)
FirstSeen(cells) ==
    IF cells = <<>> THEN <<>>
    ELSE LET rest == FirstSeen(Tail(cells))
         IN IF Head(cells) = NA THEN rest
            ELSE <<Head(cells)[1]>> \o SelectSeq2(rest, Range(rest) \ {Head(cells)[1]})

(* The values of a column that occur most often (nulls dropped). *)
MostFrequent(cells) ==
    LET vals == Range(FirstSeen(cells))
        n(v) == Cardinality({i \in 1..Len(cells) : cells[i] = <<v>>})
    IN {v \in vals : \A w \in vals : n(w) <= n(v)}

(* A mode() that keeps the hash table's order instead of sorting. *)
ModeUnsorted(cells) == SelectSeq2(FirstSeen(cells), MostFrequent(cells))

(* Series.mode() of a string column: the most frequent values, sorted. *)
Mode(cells) == SortedStrings(MostFrequent(cells))

NationalityCells(df) == [i \in 1..Len(df) |-> <<df[i].nationality>>]

(* final_df["nationality"].mode().iat[0] *)
Nationality(df) == Mode(NationalityCells(df))[1]

(* A main position that does not leave the "N/A" rows out. *)
MainPositionKeepNA(df) ==
    LET m == Mode([i \in 1..Len(df) |-> df[i].player_position])
    IN IF m # <<>> THEN m[1] ELSE "Unknown"

(* final_df.loc[player_position != "N/A", "player_position"].mode(),     *)
(* its first value, or "Unknown" when it is empty.                       *)
MainPosition(df) ==
    LET kept == SelectSeq(df, LAMBDA r : r.player_position # <<"N/A">>)
        m == Mode([i \in 1..Len(kept) |-> kept[i].player_position])
    IN IF m # <<>> THEN m[1] ELSE "Unknown"

(* Series.min() of the season names of some rows (string order). *)
MinSeason(S) == CHOOSE x \in S : \A y \in S : ~SeasonLess(y, x)

(* season_name.str[:4].astype(int): the first year field. *)
SeasonStart(name) == name[1]

(* A group key order that follows the rows (groupby(..., sort=False)). *)
TeamGroupsUnsorted(df) ==
    LET keys == FirstSeen([i \in 1..Len(df) |-> <<df[i].team_name>>])
    IN [k \in 1..Len(keys) |->
          [team_name |-> keys[k],
           season_name |-> MinSeason({df[i].season_name :
                              i \in {j \in 1..Len(df) : df[j].team_name = keys[k]}})]]

(* final_df.groupby("team_name")["season_name"].min().reset_index():     *)
(* one row per team, in the sorted order of the team names.              *)
TeamGroups(df) ==
    LET keys == SortedStrings({df[i].team_name : i \in 1..Len(df)})
    IN [k \in 1..Len(keys) |->
          [team_name |-> keys[k],
           season_name |-> MinSeason({df[i].season_name :
                              i \in {j \in 1..Len(df) : df[j].team_name = keys[k]}})]]

RECURSIVE InsertByStart(_, _)
(* One step of insertion sort: x goes after the rows that are not later. *)
InsertByStart(sorted, x) ==
    IF sorted = <<>> THEN <<x>>
    ELSE IF SeasonStart(x.season_name) < SeasonStart(Head(sorted).season_name)
         THEN <<x>> \o sorted
         ELSE <<Head(sorted)>> \o InsertByStart(Tail(sorted), x)

RECURSIVE SortByStart(_)
(* sort_values("season_start") of a short frame: rows with equal keys    *)
(* keep their order.                                                     *)
SortByStart(rows) ==
    IF rows = <<>> THEN <<>>
    ELSE InsertByStart(SortByStart(SubSeq(rows, 1, Len(rows) - 1)), rows[Len(rows)])

(* team_order["team_name"].tolist() *)
TeamOrder(df) ==
    LET t == SortByStart(TeamGroups(df))
    IN [k \in 1..Len(t) |-> t[k].team_name]

RECURSIVE Join(_, _)
(* sep.join(list of strings) *)
Join(names, sep) ==
    IF names = <<>> THEN ""
    ELSE IF Len(names) = 1 THEN names[1]
         ELSE names[1] \o sep \o Join(Tail(names), sep)

(* teams = " - ".join(team_order["team_name"].tolist()) *)
Teams(df) == Join(TeamOrder(df), " - ")

(* groupby("season_name").agg(Appearances=count of player_name,          *)
(* Goals=sum of goals), sorted by season_name, with season_start.        *)
SeasonGroups(df) ==
    LET keys == SortedSeasons({df[i].season_name : i \in 1..Len(df)})
    IN [k \in 1..Len(keys) |->
          LET rows == SelectSeq(df, LAMBDA r : r.season_name = keys[k])
          IN [season_name |-> keys[k],
              season_start |-> SeasonStart(keys[k]),
              Appearances |-> <<Len(rows)>>,
              Goals |-> <<SumSkipNA(GoalCells(rows))>>]]

(* range(season_start.min(), season_start.max() + 1) *)
AllSeasons(groups) ==
    LET starts == {groups[k].season_start : k \in 1..Len(groups)}
    IN SortedInts({y \in (CHOOSE a \in starts : \A b \in starts : a <= b) ..
                         (CHOOSE a \in starts : \A b \in starts : b <= a) : TRUE})

RECURSIVE MergeLeft(_, _)
(* all_seasons.merge(season_stats, on="season_start", how="left"): for   *)
(* each year of the range, its rows of season_stats, or one row of nulls. *)
MergeLeft(years, groups) ==
    IF years = <<>> THEN <<>>
    ELSE LET hit == SelectSeq(groups, LAMBDA g : g.season_start = Head(years))
             here == IF hit = <<>>
                     THEN <<[season_start |-> Head(years), Appearances |-> NA, Goals |-> NA]>>
                     ELSE [k \in 1..Len(hit) |->
                             [season_start |-> Head(years),
                              Appearances |-> hit[k].Appearances,
                              Goals |-> hit[k].Goals]]
         IN here \o MergeLeft(Tail(years), groups)

(* fillna(0).astype(int) on one cell. *)
FillZero(cell) == IF cell = NA THEN 0 ELSE cell[1]

(* Season = str(season_start) + "/" + str(season_start + 1) *)
SeasonLabel(y) == <<y, y + 1>>

(* A merge that keeps only the seasons the player has rows in. *)
SeasonStatsNoFill(df) ==
    LET g == SeasonGroups(df)
    IN [k \in 1..Len(g) |->
          [Season |-> SeasonLabel(g[k].season_start),
           Appearances |-> FillZero(g[k].Appearances),
           Goals |-> FillZero(g[k].Goals)]]

(* The season_stats table handed to the chart: Season, Appearances,      *)
(* Goals, one row per year of the range.                                 *)
SeasonStats(df) ==
    LET g == SeasonGroups(df)
        m == MergeLeft(AllSeasons(g), g)
    IN [k \in 1..Len(m) |->
          [Season |-> SeasonLabel(m[k].season_start),
           Appearances |-> FillZero(m[k].Appearances),
           Goals |-> FillZero(m[k].Goals)]]

(* Everything the aggregation stage computes from final_df. *)
Aggregated(df) ==
    [total_appearances |-> Len(df),
     total_goals |-> SumSkipNA(GoalCells(df)),
     nationality |-> Nationality(df),
     main_position |-> MainPosition(df),
     team_order |-> TeamOrder(df),
     teams |-> Teams(df),
     season_stats |-> SeasonStats(df)]

---------------------------------------------------------------------------
(* The table streamlit.Fbref_Appearances. *)

CL == "Champions League"
EL == "Europa League"

(* The rows the table may hold: one per player and competition. *)
Universe ==
    { [player_name |-> "Ann", competition_name |-> CL, number_of_seasons |-> 3,
       season_name |-> <<2015, 2016>>, team_name |-> "Reds", goals |-> 2,
       nationality |-> "Spain", player_position |-> <<"FW">>, game_date |-> 1],
      [player_name |-> "Ann", competition_name |-> EL, number_of_seasons |-> 4,
       season_name |-> <<2017, 2018>>, team_name |-> "Whites", goals |-> Sentinel,
       nationality |-> "Spain", player_position |-> <<"N/A">>, game_date |-> 3],
      [player_name |-> "Bob", competition_name |-> CL, number_of_seasons |-> 2,
       season_name |-> <<2017, 2018>>, team_name |-> "Reds", goals |-> 0,
       nationality |-> "Brazil", player_position |-> NA, game_date |-> 2],
      [player_name |-> "Bob", competition_name |-> EL, number_of_seasons |-> 3,
       season_name |-> <<2018, 2019>>, team_name |-> "Whites", goals |-> 1,
       nationality |-> "Brazil", player_position |-> <<"DF">>, game_date |-> 4] }

(* The orders in which a SELECT without ORDER BY may return the set S. *)
AnyOrder(S) ==
    {s \in [1..Cardinality(S) -> S] : \A i, j \in 1..Cardinality(S) : s[i] = s[j] => i = j}

(* What a function body did: the value it returned (none if it raised),  *)
(* whether it opened a connection and whether it issued its query.       *)
Outcome(value, raised, connected, queried) ==
    [value |-> value, raised |-> raised, connected |-> connected, queried |-> queried]

(* load_latest_game_date(): MAX(game_date), NULL on an empty table. *)
LatestGameDateBody ==
    LET dates == {r.game_date : r \in db}
    IN {Outcome(IF dates = {} THEN NA
                ELSE <<CHOOSE d \in dates : \A e \in dates : e <= d>>,
                FALSE, TRUE, TRUE)}

(* load_competitions(): SELECT DISTINCT competition_name, as a list. *)
CompetitionsBody ==
    {Outcome(v, FALSE, TRUE, TRUE) : v \in AnyOrder({r.competition_name : r \in db})}

(* load_number_of_seasons without its guard on selected_comps. *)
NumberOfSeasonsBodyNoGuard(selected_comps) ==
    LET ns == {r.number_of_seasons : r \in {x \in db : x.competition_name \in Range(selected_comps)}}
    IN IF ns = {} THEN {Outcome(NA, TRUE, TRUE, TRUE)}
       ELSE {Outcome(<<CHOOSE n \in ns : \A m \in ns : m <= n>>, FALSE, TRUE, TRUE)}

(* load_number_of_seasons(selected_comps): [] for no competition, else   *)
(* int(MAX(number_of_seasons)), which raises when no row matches.        *)
NumberOfSeasonsBody(selected_comps) ==
    IF selected_comps = <<>> THEN {Outcome(<<>>, FALSE, FALSE, FALSE)}
    ELSE LET ns == {r.number_of_seasons :
                      r \in {x \in db : x.competition_name \in Range(selected_comps)}}
         IN IF ns = {} THEN {Outcome(NA, TRUE, TRUE, TRUE)}
            ELSE {Outcome(<<CHOOSE n \in ns : \A m \in ns : m <= n>>, FALSE, TRUE, TRUE)}

(* The rows of WHERE number_of_seasons >= ? AND competition_name IN (...) *)
Matching(rows, minimum, selected_comps) ==
    {r \in rows : r.number_of_seasons >= minimum
                  /\ r.competition_name \in Range(selected_comps)}

(* load_players that returns the query's list as it comes. *)
PlayersBodyUnsorted(minimum, selected_comps) ==
    IF selected_comps = <<>> THEN {Outcome(<<>>, FALSE, FALSE, FALSE)}
    ELSE {Outcome(v, FALSE, TRUE, TRUE) :
            v \in AnyOrder({r.player_name : r \in Matching(db, minimum, selected_comps)})}

(* load_players(minimum_seasons, selected_comps): [] for no competition, *)
(* else sorted(SELECT DISTINCT player_name ...).                         *)
PlayersBody(minimum, selected_comps) ==
    IF selected_comps = <<>> THEN {Outcome(<<>>, FALSE, FALSE, FALSE)}
    ELSE {Outcome(SortedStrings({r.player_name : r \in Matching(db, minimum, selected_comps)}),
                  FALSE, TRUE, TRUE)}

(* load_player_data(minimum_seasons, player, selected_comps): an empty   *)
(* frame for no player or no competition, else SELECT * in any order.    *)
PlayerDataBody(minimum, who, selected_comps) ==
    IF who = NoPlayer \/ selected_comps = <<>> THEN {Outcome(<<>>, FALSE, FALSE, FALSE)}
    ELSE {Outcome(v, FALSE, TRUE, TRUE) :
            v \in AnyOrder({r \in Matching(db, minimum, selected_comps) : r.player_name = who})}

(* The body of the query function fn on the arguments args. *)
Body(fn, args) ==
    CASE fn = "load_latest_game_date" -> LatestGameDateBody
      [] fn = "load_competitions" -> CompetitionsBody
      [] fn = "load_number_of_seasons" -> NumberOfSeasonsBody(args[1])
      [] fn = "load_players" -> PlayersBody(args[1], args[2])
      [] fn = "load_player_data" -> PlayerDataBody(args[1], args[2], args[3])

---------------------------------------------------------------------------
(* @st.cache_data(ttl=600): a store per function, keyed by the arguments. *)

Functions ==
    {"load_latest_game_date", "load_competitions", "load_number_of_seasons",
     "load_players", "load_player_data"}

(* An entry expires half a time-to-live early. *)
LiveShort(e, t) == t < e.stored + (TTL \div 2)

(* An entry stored at e.stored is served while the clock is below        *)
(* e.stored + ttl.                                                       *)
Live(e, t) == t < e.stored + TTL

Cached(fn, args) == {e \in cache[fn] : e.args = args /\ Live(e, now)}

(* A call of the decorated function: the stored value without running    *)
(* the body when a live entry exists, else what the body does.           *)
CallOutcomes(fn, args) ==
    IF Cached(fn, args) # {}
    THEN {[hit |-> TRUE, value |-> e.value, raised |-> FALSE,
           connected |-> FALSE, queried |-> FALSE] : e \in Cached(fn, args)}
    ELSE {[hit |-> FALSE, value |-> o.value, raised |-> o.raised,
           connected |-> o.connected, queried |-> o.queried] : o \in Body(fn, args)}

(* The cache after the call: a returned value of a run body is stored    *)
(* under the arguments; a hit or an exception stores nothing.            *)
Stored(fn, args, o) ==
    IF o.hit \/ o.raised THEN cache
    ELSE [cache EXCEPT ![fn] = {e \in @ : e.args # args}
                                 \cup {[args |-> args, value |-> o.value, stored |-> now]}]

(* Time passes; entries past their time-to-live are dropped. *)
Tick ==
    /\ now + (TTL \div 2) <= MaxTicks * (TTL \div 2)
    /\ now' = now + (TTL \div 2)
    /\ cache' = [fn \in Functions |-> {e \in cache[fn] : Live(e, now')}]
    /\ UNCHANGED <<db, last, probe, pc, calls, competitions, max_seasons,
                   minimum_seasons, players, player, player_df, final_df, report, stats>>

(* The ingestion pipeline adds a row to the table. *)
DbInsert ==
    /\ \E r \in Universe \ db : db' = db \cup {r}
    /\ UNCHANGED <<now, cache, last, probe, pc, calls, competitions, max_seasons,
                   minimum_seasons, players, player, player_df, final_df, report, stats>>

(* A row leaves the table. *)
DbDelete ==
    /\ \E r \in db : db' = db \ {r}
    /\ UNCHANGED <<now, cache, last, probe, pc, calls, competitions, max_seasons,
                   minimum_seasons, players, player, player_df, final_df, report, stats>>

(* A caller outside the page calls the function probe.fn on probe.args. *)
DirectCall ==
    /\ \E o \in CallOutcomes(probe.fn, probe.args) :
          /\ cache' = Stored(probe.fn, probe.args, o)
          /\ last' = [fn |-> probe.fn, args |-> probe.args, seq |-> 1 - last.seq,
                      at |-> now, hit |-> o.hit, value |-> o.value, raised |-> o.raised,
                      connected |-> o.connected, queried |-> o.queried]
    /\ UNCHANGED <<db, now, probe, pc, calls, competitions, max_seasons,
                   minimum_seasons, players, player, player_df, final_df, report, stats>>

---------------------------------------------------------------------------
(* create_streamlit_app: the filter chain, one action per cached call    *)
(* with the widget that follows it.                                      *)

NoStats == [total_appearances |-> 0, total_goals |-> 0, nationality |-> "",
            main_position |-> "", team_order |-> <<>>, teams |-> "",
            season_stats |-> <<>>]

NoCompetitionMsg == "Please select at least one competition."
NoPlayerMsg == "Please select a player."
NoDataMsg == "No data available for this player in the selected competitions."

(* The lists a multiselect over the options can return. *)
Selections(options) ==
    UNION {AnyOrder(S) : S \in SUBSET Range(options)}

(* The page calls fn(args): o is what the call did. *)
PageCall(fn, args, o) ==
    /\ o \in CallOutcomes(fn, args)
    /\ cache' = Stored(fn, args, o)
    /\ calls' = Append(calls, [fn |-> fn, args |-> args])

(* Header: load_latest_game_date().strftime(...), which raises on NULL. *)
ShowLatestGameDate ==
    /\ pc = "header"
    /\ \E o \in CallOutcomes("load_latest_game_date", <<>>) :
          /\ PageCall("load_latest_game_date", <<>>, o)
          /\ pc' = IF o.raised \/ o.value = NA THEN "raised" ELSE "step1"
    /\ UNCHANGED <<db, now, last, probe, competitions, max_seasons, minimum_seasons,
                   players, player, player_df, final_df, report, stats>>

(* Step 1: multiselect over sorted(load_competitions()), whose default   *)
(* must be an option; no competition selected shows st.error and returns. *)
SelectCompetitions ==
    /\ pc = "step1"
    /\ \E o \in CallOutcomes("load_competitions", <<>>) :
          /\ PageCall("load_competitions", <<>>, o)
          /\ IF o.raised \/ CL \notin Range(o.value)
             THEN /\ pc' = "raised"
                  /\ UNCHANGED <<competitions, report>>
             ELSE \E sel \in Selections(SortedStrings(Range(o.value))) :
                     /\ competitions' = sel
                     /\ IF sel = <<>>
                        THEN pc' = "stopped" /\ report' = NoCompetitionMsg
                        ELSE pc' = "step2" /\ UNCHANGED report
    /\ UNCHANGED <<db, now, last, probe, max_seasons, minimum_seasons,
                   players, player, player_df, final_df, stats>>

(* The values st.slider(min_value=1, max_value=max, value=3) can return; *)
(* none when the default lies outside the range (the widget raises).     *)
SliderValues(max) ==
    IF SliderMin <= SliderDefault /\ SliderDefault <= max THEN SliderMin..max ELSE {}

(* Step 2: load_number_of_seasons(competitions), then the slider. *)
LoadNumberOfSeasons ==
    /\ pc = "step2"
    /\ \E o \in CallOutcomes("load_number_of_seasons", <<competitions>>) :
          /\ PageCall("load_number_of_seasons", <<competitions>>, o)
          /\ IF o.raised \/ o.value = <<>> \/ SliderValues(o.value[1]) = {}
             THEN /\ pc' = "raised"
                  /\ UNCHANGED <<max_seasons, minimum_seasons>>
             ELSE /\ max_seasons' = o.value[1]
                  /\ \E m \in SliderValues(o.value[1]) : minimum_seasons' = m
                  /\ pc' = "step3"
    /\ UNCHANGED <<db, now, last, probe, competitions, players, player, player_df,
                   final_df, report, stats>>

(* The arguments of the players query with the slider's default in place *)
(* of the chosen minimum.                                                *)
PlayersArgsDefault == <<SliderDefault, competitions>>

(* load_players(minimum_seasons, competitions) *)
PlayersArgs == <<minimum_seasons, competitions>>

(* Step 3: load_players, then the selectbox (None over no options);      *)
(* no player shows st.error and returns.                                 *)
LoadPlayers ==
    /\ pc = "step3"
    /\ \E o \in CallOutcomes("load_players", PlayersArgs) :
          /\ PageCall("load_players", PlayersArgs, o)
          /\ IF o.raised
             THEN /\ pc' = "raised"
                  /\ UNCHANGED <<players, player, report>>
             ELSE /\ players' = o.value
                  /\ \E who \in (IF o.value = <<>> THEN {NoPlayer} ELSE Range(o.value)) :
                        /\ player' = who
                        /\ IF who = NoPlayer
                           THEN pc' = "stopped" /\ report' = NoPlayerMsg
                           ELSE pc' = "step4" /\ UNCHANGED report
    /\ UNCHANGED <<db, now, last, probe, competitions, max_seasons, minimum_seasons,
                   player_df, final_df, stats>>

(* A frame that never counts as empty. *)
NeverEmpty(df) == FALSE

(* player_df.empty *)
Empty(df) == df = <<>>

(* Step 4: load_player_data(minimum_seasons, player, competitions); an   *)
(* empty frame shows st.warning and returns.                             *)
LoadPlayerData ==
    /\ pc = "step4"
    /\ \E o \in CallOutcomes("load_player_data", <<minimum_seasons, player, competitions>>) :
          /\ PageCall("load_player_data", <<minimum_seasons, player, competitions>>, o)
          /\ IF o.raised
             THEN /\ pc' = "raised"
                  /\ UNCHANGED <<player_df, report>>
             ELSE /\ player_df' = o.value
                  /\ IF Empty(o.value)
                     THEN pc' = "stopped" /\ report' = NoDataMsg
                     ELSE pc' = "season_filter" /\ UNCHANGED report
    /\ UNCHANGED <<db, now, last, probe, competitions, max_seasons, minimum_seasons,
                   players, player, final_df, stats>>

(* Season filter: the optional multiselect over the player's seasons;    *)
(* rows of the selected seasons, or all rows when none is selected.      *)
SeasonFilter ==
    /\ pc = "season_filter"
    /\ \E seasons \in SUBSET {player_df[i].season_name : i \in 1..Len(player_df)} :
          final_df' = IF seasons # {}
                      THEN SelectSeq(player_df, LAMBDA r : r.season_name \in seasons)
                      ELSE player_df
    /\ pc' = "aggregate"
    /\ UNCHANGED <<db, now, cache, last, probe, calls, competitions, max_seasons,
                   minimum_seasons, players, player, player_df, report, stats>>

(* Aggregation: replace the sentinel, then compute what the page shows. *)
Aggregate ==
    /\ pc = "aggregate"
    /\ final_df' = ReplaceSentinel(final_df)
    /\ stats' = Aggregated(ReplaceSentinel(final_df))
    /\ pc' = "done"
    /\ UNCHANGED <<db, now, cache, last, probe, calls, competitions, max_seasons,
                   minimum_seasons, players, player, player_df, report>>

---------------------------------------------------------------------------
(* The page, run from process start against a table that changes. *)

NoCall == [fn |-> "", args |-> <<>>, seq |-> 0, at |-> 0, hit |-> FALSE,
           value |-> <<>>, raised |-> FALSE, connected |-> FALSE, queried |-> FALSE]

NoProbe == [fn |-> "", args |-> <<>>]

PageIdle ==
    /\ calls = <<>>
    /\ competitions = <<>>
    /\ max_seasons = 0
    /\ minimum_seasons = 0
    /\ players = <<>>
    /\ player = NoPlayer
    /\ final_df = <<>>
    /\ report = ""
    /\ stats = NoStats

Init ==
    /\ db \in SUBSET Universe
    /\ now = 0
    /\ cache = [fn \in Functions |-> {}]
    /\ last = NoCall
    /\ probe = NoProbe
    /\ pc = "header"
    /\ player_df = <<>>
    /\ PageIdle

Next ==
    \/ ShowLatestGameDate
    \/ SelectCompetitions
    \/ LoadNumberOfSeasons
    \/ LoadPlayers
    \/ LoadPlayerData
    \/ SeasonFilter
    \/ Aggregate
    \/ DbInsert
    \/ DbDelete

Spec == Init /\ [][Next]_vars

---------------------------------------------------------------------------
(* The query layer under a direct caller: one function, one argument     *)
(* tuple, called again and again while time passes and the table changes. *)

CompLists == Selections(<<CL, EL>>)
Thresholds == {2, 3, 4}
PlayerArgs == {NoPlayer, "Ann", "Bob"}

Probes ==
    {[fn |-> "load_latest_game_date", args |-> <<>>],
     [fn |-> "load_competitions", args |-> <<>>]}
    \cup {[fn |-> "load_number_of_seasons", args |-> <<c>>] : c \in CompLists}
    \cup {[fn |-> "load_players", args |-> <<m, c>>] : m \in Thresholds, c \in CompLists}
    \cup {[fn |-> "load_player_data", args |-> <<m, who, c>>] :
            m \in Thresholds, who \in PlayerArgs, c \in CompLists}

InitQuery ==
    /\ db \in SUBSET Universe
    /\ now = 0
    /\ cache = [fn \in Functions |-> {}]
    /\ last = NoCall
    /\ probe \in Probes
    /\ pc = "none"
    /\ player_df = <<>>
    /\ PageIdle

NextQuery ==
    \/ DirectCall
    \/ Tick
    \/ DbInsert
    \/ DbDelete

SpecQuery == InitQuery /\ [][NextQuery]_vars

---------------------------------------------------------------------------
(* The aggregation stage over bounded frames of one player's rows. *)

Years == {2015, 2017, 2018}

BaseRow ==
    [player_name |-> "Ann", competition_name |-> CL, number_of_seasons |-> 3,
     season_name |-> <<2015, 2016>>, team_name |-> "Reds", goals |-> 2,
     nationality |-> "Spain", player_position |-> <<"FW">>, game_date |-> 1]

RowsTeam ==
    {[BaseRow EXCEPT !.season_name = <<y, y + 1>>, !.team_name = t] :
        y \in Years, t \in {"Reds", "Whites"}}

RowsGoals ==
    {[BaseRow EXCEPT !.season_name = <<y, y + 1>>, !.goals = g] :
        y \in Years, g \in {Sentinel, 0, 2}}

RowsMode ==
    {[BaseRow EXCEPT !.nationality = n, !.player_position = p] :
        n \in {"Spain", "Brazil"}, p \in {NA, <<"N/A">>, <<"DF">>, <<"FW">>}}

Frames ==
    UNION {[1..n -> R] : n \in 1..MaxRows, R \in {RowsTeam, RowsGoals, RowsMode}}

InitAgg ==
    /\ db = {}
    /\ now = 0
    /\ cache = [fn \in Functions |-> {}]
    /\ last = NoCall
    /\ probe = NoProbe
    /\ pc = "season_filter"
    /\ player_df \in Frames
    /\ PageIdle

NextAgg ==
    \/ SeasonFilter
    \/ Aggregate

SpecAgg == InitAgg /\ [][NextAgg]_vars

---------------------------------------------------------------------------
(* Properties of the aggregation stage (SpecAgg).  In the step from      *)
(* "aggregate" to "done", final_df is the filtered frame as loaded and   *)
(* stats' is what the page shows for it.                                 *)

AggregateStep == pc = "aggregate" /\ pc' = "done"

RECURSIVE RawGoalSum(_, _)
(* The sum of the goals values other than -1 of the rows df[i], i in I. *)
RawGoalSum(df, I) ==
    IF I = {} THEN 0
    ELSE LET i == CHOOSE j \in I : TRUE
         IN (IF df[i].goals = Sentinel THEN 0 ELSE df[i].goals) + RawGoalSum(df, I \ {i})

RowsOfYear(df, y) == {i \in 1..Len(df) : df[i].season_name[1] = y}

FirstYear(df) ==
    CHOOSE y \in {df[i].season_name[1] : i \in 1..Len(df)} :
        \A i \in 1..Len(df) : y <= df[i].season_name[1]

LastYear(df) ==
    CHOOSE y \in {df[i].season_name[1] : i \in 1..Len(df)} :
        \A i \in 1..Len(df) : df[i].season_name[1] <= y

(* C5: season densification.  The per-season table of a non-empty frame  *)
(* has exactly one row per start year Y from the smallest to the largest *)
(* start year of the rows, in ascending order, labelled Y/(Y+1); a year  *)
(* with rows carries their number as Appearances and the sum of their    *)
(* goals (sentinels skipped) as Goals, a year without rows carries 0, 0. *)
C5_SeasonDensification ==
    [][AggregateStep =>
        LET t == stats'.season_stats
            lo == FirstYear(final_df)
            hi == LastYear(final_df)
        IN /\ Len(t) = hi - lo + 1
           /\ \A k \in 1..Len(t) :
                 /\ t[k].Season = <<lo + k - 1, lo + k>>
                 /\ t[k].Appearances = Cardinality(RowsOfYear(final_df, lo + k - 1))
                 /\ t[k].Goals = RawGoalSum(final_df, RowsOfYear(final_df, lo + k - 1))
                 /\ (RowsOfYear(final_df, lo + k - 1) = {}
                        => t[k].Appearances = 0 /\ t[k].Goals = 0)]_vars

(* Rows only in 2015/2016 and 2018/2019 gave the four seasons 2015/2016  *)
(* to 2018/2019 with zeros in the two middle ones.                       *)
C5_Witness ==
    /\ pc = "done"
    /\ {final_df[i].season_name : i \in 1..Len(final_df)} = {<<2015, 2016>>, <<2018, 2019>>}
    /\ Len(stats.season_stats) = 4
    /\ stats.season_stats[1].Season = <<2015, 2016>>
    /\ stats.season_stats[2] = [Season |-> <<2016, 2017>>, Appearances |-> 0, Goals |-> 0]
    /\ stats.season_stats[3] = [Season |-> <<2017, 2018>>, Appearances |-> 0, Goals |-> 0]
    /\ stats.season_stats[4].Season = <<2018, 2019>>
    /\ stats.season_stats[4].Appearances > 0

(* C6: sentinel replacement.  A row whose goals value is -1 counts as    *)
(* one appearance and adds nothing to the total goal sum or to its       *)
(* season's Goals: the total is the sum of the goals values that are not *)
(* -1, and after the replacement the -1 cells are null.                  *)
C6_SentinelReplacement ==
    [][AggregateStep =>
        /\ stats'.total_appearances = Len(final_df)
        /\ stats'.total_goals = RawGoalSum(final_df, 1..Len(final_df))
        /\ \A i \in 1..Len(final_df) :
              /\ final_df[i].goals = Sentinel => final_df'[i].goals = NA
              /\ final_df[i].goals # Sentinel => final_df'[i].goals = <<final_df[i].goals>>
              /\ \E k \in 1..Len(stats'.season_stats) :
                    /\ stats'.season_stats[k].Season[1] = final_df[i].season_name[1]
                    /\ stats'.season_stats[k].Appearances
                          = Cardinality(RowsOfYear(final_df, final_df[i].season_name[1]))
                    /\ stats'.season_stats[k].Goals
                          = RawGoalSum(final_df, RowsOfYear(final_df, final_df[i].season_name[1]))]_vars

(* Goals 2 in 2015/2016 and -1 in 2017/2018 gave 2 appearances, 2 goals  *)
(* and season Goals 2, 0, 0.                                             *)
C6_Witness ==
    /\ pc = "done"
    /\ Len(final_df) = 2
    /\ final_df[1].season_name = <<2015, 2016>> /\ final_df[1].goals = <<2>>
    /\ final_df[2].season_name = <<2017, 2018>> /\ final_df[2].goals = NA
    /\ stats.total_appearances = 2
    /\ stats.total_goals = 2
    /\ [k \in 1..Len(stats.season_stats) |-> stats.season_stats[k].Goals] = <<2, 0, 0>>
    /\ stats.season_stats[3].Appearances = 1

(* The orders in which the rows of df can be handed to the aggregation. *)
RowOrders(df) ==
    {[i \in 1..Len(df) |-> df[q[i]]] : q \in AnyOrder(1..Len(df))}

(* The start year of the earliest season the player appeared in for t. *)
FirstYearFor(df, t) ==
    CHOOSE y \in {df[i].season_name[1] : i \in {j \in 1..Len(df) : df[j].team_name = t}} :
        \A i \in 1..Len(df) : df[i].team_name = t => y <= df[i].season_name[1]

(* C7: team order.  The displayed team sequence lists each team of the   *)
(* frame exactly once, ascending by the start year of the earliest       *)
(* season the player appeared in for that team, and is the same for      *)
(* every permutation of the rows.                                        *)
C7_TeamOrder ==
    pc = "done" =>
        LET t == stats.team_order
        IN /\ Range(t) = {final_df[i].team_name : i \in 1..Len(final_df)}
           /\ \A k, l \in 1..Len(t) : t[k] = t[l] => k = l
           /\ \A k, l \in 1..Len(t) :
                 k < l => FirstYearFor(final_df, t[k]) <= FirstYearFor(final_df, t[l])
           /\ \A q \in RowOrders(final_df) :
                 TeamOrder(q) = t /\ Teams(q) = stats.teams

(* The second team by name came first: its rows are in 2015/2016 and     *)
(* 2018/2019, the other team's in 2017/2018, and the frame starts with a *)
(* row of the later period.                                              *)
C7_Witness ==
    /\ pc = "done"
    /\ Len(final_df) = 3
    /\ {<<final_df[i].team_name, final_df[i].season_name[1]>> : i \in 1..3}
          = {<<"Whites", 2015>>, <<"Reds", 2017>>, <<"Whites", 2018>>}
    /\ final_df[1].season_name[1] = 2018
    /\ stats.team_order = <<"Whites", "Reds">>
    /\ stats.teams = "Whites - Reds"

NationalityCount(df, v) == Cardinality({i \in 1..Len(df) : df[i].nationality = v})

TopNationalities(df) ==
    {v \in {df[i].nationality : i \in 1..Len(df)} :
        \A i \in 1..Len(df) : NationalityCount(df, df[i].nationality) <= NationalityCount(df, v)}

FirstRowOf(df, v) ==
    CHOOSE i \in 1..Len(df) :
        df[i].nationality = v /\ \A j \in 1..Len(df) : df[j].nationality = v => i <= j

(* C9 as claimed: the displayed nationality is a value with the highest  *)
(* row count, and of several such values the one that occurs first in    *)
(* row order.                                                            *)
C9_FirstEncountered ==
    pc = "done" =>
        /\ stats.nationality \in TopNationalities(final_df)
        /\ \A v \in TopNationalities(final_df) :
              FirstRowOf(final_df, stats.nationality) <= FirstRowOf(final_df, v)

(* C9, amended: the displayed nationality is a value with the highest    *)
(* row count, and of several such values the smallest in string order.   *)
C9_SmallestMode ==
    pc = "done" =>
        /\ stats.nationality \in TopNationalities(final_df)
        /\ \A v \in TopNationalities(final_df) : ~StrLess(v, stats.nationality)

(* Two nationalities share the highest count and the one shown is not    *)
(* the one of the first row.                                             *)
C9_Witness ==
    /\ pc = "done"
    /\ Cardinality(TopNationalities(final_df)) = 2
    /\ final_df[1].nationality = "Spain"
    /\ stats.nationality = "Brazil"

PresentPositions(df) ==
    {df[i].player_position[1] :
        i \in {j \in 1..Len(df) : df[j].player_position # NA /\ df[j].player_position # <<"N/A">>}}

PositionCount(df, v) == Cardinality({i \in 1..Len(df) : df[i].player_position = <<v>>})

(* C10: the main position is a most frequent position among the rows    *)
(* whose position is present and not "N/A"; it is "Unknown" exactly when *)
(* every row's position is "N/A" or absent; it is never "N/A".           *)
C10_MainPosition ==
    pc = "done" =>
        LET present == PresentPositions(final_df)
        IN /\ stats.main_position # "N/A"
           /\ (stats.main_position = "Unknown") <=> (present = {})
           /\ present # {} =>
                 /\ stats.main_position \in present
                 /\ \A v \in present :
                       PositionCount(final_df, v) <= PositionCount(final_df, stats.main_position)

(* "N/A" is the most frequent value, one row has no position, and the    *)
(* main position is the one real position of the frame.                  *)
C10_Witness ==
    /\ pc = "done"
    /\ Len(final_df) = 3
    /\ PositionCount(final_df, "N/A") = 2
    /\ PresentPositions(final_df) = {"DF"}
    /\ stats.main_position = "DF"

(* Every position is "N/A" or absent and the page shows "Unknown". *)
C10_WitnessUnknown ==
    /\ pc = "done"
    /\ \E i \in 1..Len(final_df) : final_df[i].player_position = NA
    /\ \E i \in 1..Len(final_df) : final_df[i].player_position = <<"N/A">>
    /\ stats.main_position = "Unknown"

---------------------------------------------------------------------------
(* Properties of the query layer (SpecQuery).  last is the latest direct *)
(* call; a step with last'.seq # last.seq is a call.                     *)

CallStep == last'.seq # last.seq

(* The competition argument of a call of the three dependent queries. *)
CompsOf(c) ==
    CASE c.fn = "load_number_of_seasons" -> c.args[1]
      [] c.fn = "load_players" -> c.args[2]
      [] c.fn = "load_player_data" -> c.args[3]

Dependent == {"load_number_of_seasons", "load_players", "load_player_data"}

(* C1: a call of load_number_of_seasons, load_players or                 *)
(* load_player_data with no competition (for load_player_data also with  *)
(* no player) returns an empty result, opens no connection and issues no *)
(* query.                                                                *)
C1_EmptyInputNoQuery ==
    (/\ last.fn \in Dependent
     /\ \/ CompsOf(last) = <<>>
        \/ (last.fn = "load_player_data" /\ last.args[2] = NoPlayer))
    => /\ last.value = <<>>
       /\ ~last.raised
       /\ ~last.connected
       /\ ~last.queried

(* load_number_of_seasons([]) was called, on a miss, while the table     *)
(* held every row.                                                       *)
C1_Witness ==
    /\ last.fn = "load_number_of_seasons"
    /\ last.args = <<(<<>>)>>
    /\ ~last.hit
    /\ last.value = <<>>
    /\ db = Universe

(* C2 as claimed: a call made less than 600 time units after an earlier  *)
(* call with the same arguments (one that returned) issues no query and  *)
(* returns what that call returned.                                      *)
C2_AnyEarlierCall ==
    [][(/\ CallStep
        /\ last.fn = last'.fn
        /\ last.args = last'.args
        /\ ~last.raised
        /\ last'.at - last.at < TTL)
          => /\ ~last'.queried
             /\ last'.value = last.value]_vars

(* C2, amended: a call made less than 600 time units after the call that *)
(* ran the query and stored the entry for its arguments issues no query  *)
(* and returns the stored value, whatever the table holds by then; a     *)
(* call that runs its query and returns stores its value; an entry       *)
(* leaves the cache only once 600 time units have passed since it was    *)
(* stored.                                                               *)
C2_CacheWindow ==
    [][/\ \A fn \in Functions : \A e \in cache[fn] :
             /\ (CallStep /\ last'.fn = fn /\ last'.args = e.args /\ now - e.stored < TTL)
                   => /\ last'.hit
                      /\ ~last'.queried
                      /\ ~last'.connected
                      /\ last'.value = e.value
                      /\ e \in cache'[fn]
             /\ e \notin cache'[fn] => now' - e.stored >= TTL
       /\ (CallStep /\ last'.queried /\ ~last'.raised)
             => [args |-> last'.args, value |-> last'.value, stored |-> now]
                   \in cache'[last'.fn]]_vars

(* load_players was answered from the cache, 300 time units after the    *)
(* entry was stored, with a list of two players although the table is    *)
(* empty by now.                                                         *)
C2_Witness ==
    /\ last.fn = "load_players"
    /\ last.hit
    /\ ~last.queried
    /\ last.at = TTL \div 2
    /\ Len(last.value) = 2
    /\ db = {}
    /\ \E e \in cache["load_players"] : e.stored = 0 /\ e.value = last.value

(* C8: for a non-empty competition list and any threshold, the list      *)
(* load_players returns is strictly ascending (sorted, no duplicate),    *)
(* and when the query ran it holds exactly the names with a row of       *)
(* number_of_seasons >= threshold in one of the competitions.            *)
C8_PlayersSortedDistinct ==
    [][(CallStep /\ last'.fn = "load_players" /\ last'.args[2] # <<>>)
          => LET v == last'.value
             IN /\ ~last'.raised
                /\ \A i, j \in 1..Len(v) : i < j => StrLess(v[i], v[j])
                /\ last'.queried =>
                      Range(v) = {r.player_name :
                                    r \in {x \in db : /\ x.number_of_seasons >= last'.args[1]
                                                      /\ x.competition_name \in Range(last'.args[2])}}]_vars

(* The query ran for both competitions and returned both players. *)
C8_Witness ==
    /\ last.fn = "load_players"
    /\ last.queried
    /\ Range(last.args[2]) = {CL, EL}
    /\ last.value = <<"Ann", "Bob">>

---------------------------------------------------------------------------
(* Properties of the filter chain (Spec). *)

Aggregating == pc \in {"season_filter", "aggregate", "done"}

StageOrder ==
    <<"load_latest_game_date", "load_competitions", "load_number_of_seasons",
      "load_players", "load_player_data">>

(* C4: the page issues its queries in the order max-seasons, players,    *)
(* player data, and filters seasons after them; each gets the selections *)
(* made before it as arguments; none is issued before the selection it   *)
(* needs exists; load_players and load_player_data are never called with *)
(* an empty competition list.                                            *)
C4_StageOrder ==
    /\ Len(calls) <= 5
    /\ \A k \in 1..Len(calls) : calls[k].fn = StageOrder[k]
    /\ Len(calls) >= 3 =>
          /\ competitions # <<>>
          /\ calls[3].args = <<competitions>>
    /\ Len(calls) >= 4 =>
          /\ minimum_seasons \in SliderMin..max_seasons
          /\ calls[4].args = <<minimum_seasons, competitions>>
    /\ Len(calls) >= 5 =>
          /\ player # NoPlayer
          /\ player \in Range(players)
          /\ calls[5].args = <<minimum_seasons, player, competitions>>
    /\ Aggregating => Len(calls) = 5
    /\ \A k \in 1..Len(calls) :
          calls[k].fn \in Dependent => CompsOf(calls[k]) # <<>>

(* A full run whose slider was moved off its default. *)
C4_Witness ==
    /\ pc = "done"
    /\ Len(calls) = 5
    /\ minimum_seasons # SliderDefault
    /\ Len(competitions) = 2

====
